---- MODULE Spec2Model ----
(***************************************************************************)
(* A model of github-issue-proxy (src/src/main.rs): the two axum handlers  *)
(* `handler` and `cached_handler`, the recursive pagination fetch          *)
(* `fetch_from_github`, the response serialisation and the mutex-guarded   *)
(* TtlCache shared by all concurrently running handlers.                   *)
(*                                                                         *)
(* Time is counted in seconds.  Strings that the program builds or parses  *)
(* (URLs, JSON bodies, diagnostic messages) are sequences of tokens, so    *)
(* that formatting and parsing are computed, not assumed.  Option<T> is a  *)
(* sequence of length 0 (None) or 1 (Some).                                *)
(***************************************************************************)
EXTENDS Integers, Sequences, FiniteSets, TLC

\* ---------------------------------------------------------------- bounds
MaxTicks == 2
MaxRequests == 2
MaxHops == 2
MaxStores == 4
Capacity == 2

\* ------------------------------------------------------ program constants
SecsPerMinute == 60
U16Modulus == 65536
StatusOk == 200
StatusBadRequest == 400
StatusInternalServerError == 500

\* ------------------------------------------------------------ input sets
Procs == {"h1", "h2"}
Minutes == {1, 2, 1093}

None == <<>>
Some(v) == <<v>>

\* Inbound header sets: without and with an Authorization header.
HNone == << <<"host", "proxy.local">>, <<"accept-encoding", "gzip">>,
            <<"x-tag", "1">>, <<"x-tag", "2">> >>
HA == << <<"host", "proxy.local">>, <<"authorization", "A">>,
         <<"accept-encoding", "gzip">> >>
HB == << <<"authorization", "B">>, <<"x-tag", "1">> >>

\* What a request asks for: a path and a header set.
Target(path, hs) == [path |-> path, headers |-> hs]
Targets == { Target("p", HNone), Target("p", HA), Target("p", HB),
             Target("q", HA) }

DefaultAuthHeaders == {None, Some("A")}

\* The query string of the inbound request line, if it has one.
Queries == {None, Some("state=all")}

\* The body of an upstream error answer.
ErrorBody == <<"{\"message\":\"Not Found\"}">>

\* URIs the upstream may name in a link header.
NextUri == <<"https://", "uploads.github.com", "/", "p?page=2">>
RelativeUri == <<"/", "p?page=2">>
LinkEntry(uri, rel) == [uri |-> uri, rel |-> rel]
\* A link header value: whether its bytes are visible ASCII, and the list of
\* its <uri>; rel="..." entries (an entry without a uri is malformed).
LinkValue(ascii, entries) == [visible_ascii |-> ascii, entries |-> entries]
NoNext == Some(LinkValue(TRUE, << LinkEntry(NextUri, "last") >>))
HasNext == Some(LinkValue(TRUE, << LinkEntry(NextUri, "next") >>))
HasRelativeNext == Some(LinkValue(TRUE, << LinkEntry(RelativeUri, "next") >>))
MalformedLink == Some(LinkValue(TRUE, << LinkEntry(<<>>, "next") >>))
NonAsciiLink == Some(LinkValue(FALSE, <<>>))

\* What one upstream call can come back with: the call itself failing, or a
\* response with a status, a body (which may fail to be read) and an
\* optional link header.
UpstreamReply(kind, status, readable, body, link) ==
    [kind |-> kind, status |-> status, readable |-> readable,
     body |-> body, link |-> link]
FailedCall == UpstreamReply("failed", 0, FALSE, <<>>, None)
PageX == <<"[", " ", "x", "]">>
PageYZ == <<"[", "y", ",", "z", "]">>
NotAnArray == <<"{", "}">>
Page(body, link) == UpstreamReply("response", StatusOk, TRUE, body, link)
UpstreamReplies ==
    { FailedCall,
      UpstreamReply("response", 404, TRUE, ErrorBody, None),
      UpstreamReply("response", StatusOk, FALSE, <<>>, None),
      Page(NotAnArray, None),
      Page(PageX, MalformedLink),
      Page(PageX, NonAsciiLink),
      Page(PageX, HasRelativeNext) }
    \cup { Page(b, l) : b \in {PageX, PageYZ}, l \in {None, NoNext, HasNext} }

\* ------------------------------------------------------------- HeaderMap
ContainsKey(hs, name) == \E i \in 1..Len(hs) : hs[i][1] = name

\* HeaderMap::get: the first value of the name, if any.
GetHeader(hs, name) ==
    IF ContainsKey(hs, name)
    THEN Some(hs[CHOOSE i \in 1..Len(hs) :
                   /\ hs[i][1] = name
                   /\ \A j \in 1..(i-1) : hs[j][1] # name][2])
    ELSE None

AppendHeader(hs, name, value) == Append(hs, <<name, value>>)

\* ------------------------------------------------------------------ URLs
UpstreamUrl(path) == <<"https://", "api.github.com", "/", path>>

\* Url::parse: succeeds on an absolute URL.
UrlParses(url) == Len(url) >= 2 /\ url[1] = "https://"
HostStr(url) == IF UrlParses(url) THEN Some(url[2]) ELSE None

\* --------------------------------------------------------------- statuses
IsSuccess(status) == status >= 200 /\ status <= 299

\* StatusCode::from_u16(..).unwrap_or(INTERNAL_SERVER_ERROR)
StatusFromU16(n) == IF n >= 100 /\ n <= 999 THEN n ELSE StatusInternalServerError

\* ------------------------------------------------------------------ JSON
IsSpace(tok) == tok = " "

RECURSIVE SkipSpace(_)
SkipSpace(toks) ==
    IF toks = <<>> THEN <<>>
    ELSE IF IsSpace(Head(toks)) THEN SkipSpace(Tail(toks))
    ELSE <<Head(toks)>> \o SkipSpace(Tail(toks))

IsScalar(tok) == tok \notin {"[", "]", ",", "{", "}", " "}

\* The elements of a comma-separated list of scalars, or failure.
RECURSIVE ParseElements(_)
ParseElements(toks) ==
    IF toks = <<>> THEN [ok |-> TRUE, values |-> <<>>]
    ELSE IF ~IsScalar(Head(toks)) THEN [ok |-> FALSE, values |-> <<>>]
    ELSE IF Len(toks) = 1 THEN [ok |-> TRUE, values |-> <<Head(toks)>>]
    ELSE IF toks[2] # "," \/ Len(toks) = 2 THEN [ok |-> FALSE, values |-> <<>>]
    ELSE LET rest == ParseElements(SubSeq(toks, 3, Len(toks)))
         IN  [ok |-> rest.ok,
              values |-> IF rest.ok THEN <<Head(toks)>> \o rest.values ELSE <<>>]

\* serde_json::from_str::<OpaqueJsonArray>: a bare JSON array of values.
FromStr(body) ==
    LET toks == SkipSpace(body) IN
    IF Len(toks) >= 2 /\ toks[1] = "[" /\ toks[Len(toks)] = "]"
    THEN ParseElements(SubSeq(toks, 2, Len(toks) - 1))
    ELSE [ok |-> FALSE, values |-> <<>>]

RECURSIVE JoinComma(_)
JoinComma(values) ==
    IF values = <<>> THEN <<>>
    ELSE IF Len(values) = 1 THEN <<values[1]>>
    ELSE <<values[1], ",">> \o JoinComma(Tail(values))

\* serde_json::to_string of an OpaqueJsonArray (transparent: a bare array).
ToJsonString(values) == <<"[">> \o JoinComma(values) \o <<"]">>

Response(status, body) == [status |-> status, body |-> body]
NoResponse == Response(0, <<>>)

SerializeForResponse(values) == Response(StatusOk, ToJsonString(values))

\* ------------------------------------------------------ fetch_from_github
\* (mutant) a translation that passes the inbound host header through
RECURSIVE TranslateHeadersKeepsHost(_, _)
TranslateHeadersKeepsHost(request_headers, url) ==
    IF request_headers = <<>> THEN <<>>
    ELSE LET key == Head(request_headers)[1]
             value == Head(request_headers)[2]
             rest == TranslateHeadersKeepsHost(Tail(request_headers), url)
         IN  IF key = "accept-encoding" THEN rest
             ELSE << <<key, value>> >> \o rest

\* The outbound headers of one hop, built from the inbound header set.
RECURSIVE TranslateHeaders(_, _)
TranslateHeaders(request_headers, url) ==
    IF request_headers = <<>> THEN <<>>
    ELSE LET key == Head(request_headers)[1]
             value == Head(request_headers)[2]
             rest == TranslateHeaders(Tail(request_headers), url)
         IN  IF key = "host"
             THEN (IF HostStr(url) # None
                   THEN << <<key, HostStr(url)[1]>> >> ELSE <<>>) \o rest
             ELSE IF key = "accept-encoding" THEN rest
             ELSE << <<key, value>> >> \o rest

Ok(values) == [ok |-> TRUE, values |-> values, error |-> NoResponse]
Err(status, body) == [ok |-> FALSE, values |-> <<>>, error |-> Response(status, body)]

\* (mutant) a link parser that accepts every value
LinkParsesAnything(link) == TRUE

\* parse_link_header::parse: fails on an entry without a uri.
LinkParses(link) == \A i \in 1..Len(link.entries) : link.entries[i].uri # <<>>

\* (mutant) a lookup that never finds a next link
NextLinkIgnored(link) == None

\* link_map.get("next"): the uri of the last entry with rel="next".
NextLink(link) ==
    LET idx == {i \in 1..Len(link.entries) : link.entries[i].rel = "next"} IN
    IF idx = {} THEN None
    ELSE Some(link.entries[CHOOSE i \in idx : \A j \in idx : j <= i].uri)

Hop(tag, values, uri, error) ==
    [tag |-> tag, values |-> values, uri |-> uri, error |-> error]

\* One call's reply as this hop sees it: an error, a last page, or a page
\* with the uri of the next one.
HopResult(r) ==
    IF r.kind = "failed"
    THEN Hop("err", <<>>, <<>>,
             Response(StatusInternalServerError,
                      <<"Failed to make request to github: ", "reqwest::Error">>))
    ELSE IF ~IsSuccess(r.status)
    THEN Hop("err", <<>>, <<>>,
             Response(StatusFromU16(r.status),
                      IF r.readable THEN r.body
                      ELSE <<"Failed to read response body: ", "reqwest::Error">>))
    ELSE IF ~r.readable
    THEN Hop("err", <<>>, <<>>,
             Response(StatusInternalServerError,
                      <<"Failed to read response: ", "reqwest::Error">>))
    ELSE LET parsed == FromStr(r.body) IN
    IF ~parsed.ok
    THEN Hop("err", <<>>, <<>>,
             Response(StatusInternalServerError,
                      <<"Failed to read response \"">> \o r.body
                        \o <<"\": ", "serde_json::Error">>))
    ELSE IF r.link = None THEN Hop("last", parsed.values, <<>>, NoResponse)
    ELSE LET link == r.link[1] IN
    IF ~link.visible_ascii
    THEN Hop("err", <<>>, <<>>,
             Response(StatusInternalServerError,
                      <<"Failed to parse link header: ", "ToStrError">>))
    ELSE IF ~LinkParses(link)
    THEN Hop("err", <<>>, <<>>,
             Response(StatusInternalServerError,
                      <<"Failed to parse link map: ", "parse_link_header::Error">>))
    ELSE IF NextLink(link) = None THEN Hop("last", parsed.values, <<>>, NoResponse)
    ELSE Hop("next", parsed.values, NextLink(link)[1], NoResponse)

\* The map_err around the recursive call: any error of a followed page
\* becomes a 500 whose text quotes the inner (status, message) pair.
FollowUpError(err) ==
    Response(StatusInternalServerError,
             <<"Failed to make follow-up request to github: ", "(",
               ToString(err.status), ", ">> \o err.body \o <<")">>)

\* (mutant) the followed pages put before the current page
ExtendPrepends(values, rest) == rest \o values

\* values.values.extend(rest.values)
Extend(values, rest) == values \o rest

\* (mutant) a fetch that returns the pages it has when a followed page fails
RECURSIVE FetchFromGithubKeepsPages(_)
FetchFromGithubKeepsPages(replies) ==
    LET hop == HopResult(Head(replies)) IN
    IF hop.tag = "err" THEN Err(hop.error.status, hop.error.body)
    ELSE IF hop.tag = "last" THEN Ok(hop.values)
    ELSE LET rest == FetchFromGithubKeepsPages(Tail(replies)) IN
         IF rest.ok THEN Ok(Extend(hop.values, rest.values))
         ELSE Ok(hop.values)

\* The result of fetch_from_github, given the replies its successive calls
\* came back with (first page first).
RECURSIVE FetchFromGithub(_)
FetchFromGithub(replies) ==
    LET hop == HopResult(Head(replies)) IN
    IF hop.tag = "err" THEN Err(hop.error.status, hop.error.body)
    ELSE IF hop.tag = "last" THEN Ok(hop.values)
    ELSE LET rest == FetchFromGithub(Tail(replies)) IN
         IF rest.ok THEN Ok(Extend(hop.values, rest.values))
         ELSE Err(FollowUpError(rest.error).status, FollowUpError(rest.error).body)

\* --------------------------------------------------------------- TtlCache
\* The cache is the list of its entries, least recently inserted first.
\* (mutant) a key that leaves the Authorization header out
CacheKeyPathOnly(hs, path) == [authorization_header |-> None, path |-> path]

CacheKey(hs, path) ==
    [authorization_header |-> GetHeader(hs, "authorization"), path |-> path]

CacheValue(values, now) == [values |-> values, generated_at |-> now]

\* (mutant) entries that never expire
IsExpiredNever(entry, now) == FALSE

\* An entry is expired once the time-to-live it was inserted with has passed.
IsExpired(entry, now) == now > entry.expiration

HasKey(c, k) == \E i \in 1..Len(c) : c[i].key = k
EntryOf(c, k) == c[CHOOSE i \in 1..Len(c) : c[i].key = k]

\* TtlCache::get: the value of the key, unless absent or expired.
CacheGet(c, k, now) ==
    IF HasKey(c, k) /\ ~IsExpired(EntryOf(c, k), now)
    THEN Some(EntryOf(c, k).value) ELSE None

RECURSIVE Without(_, _)
Without(c, k) ==
    IF c = <<>> THEN <<>>
    ELSE (IF Head(c).key = k THEN <<>> ELSE <<Head(c)>>) \o Without(Tail(c), k)

\* (mutant) an insert that, over capacity, drops the youngest older entry
CacheInsertEvictsYoungest(c, k, v, ttl, now, origin) ==
    LET entry == [key |-> k, value |-> v, expiration |-> now + ttl,
                  origin |-> origin]
        others == Without(c, k)
    IN  IF Len(others) + 1 > Capacity
        THEN Append(SubSeq(others, 1, Len(others) - 1), entry)
        ELSE Append(others, entry)

\* (mutant) an insert that leaves the entry a key already has in place
CacheInsertKeepsFirst(c, k, v, ttl, now, origin) ==
    LET entry == [key |-> k, value |-> v, expiration |-> now + ttl,
                  origin |-> origin]
        inserted == IF HasKey(c, k) THEN c ELSE Append(c, entry)
    IN  IF Len(inserted) > Capacity THEN Tail(inserted) ELSE inserted

\* (mutant) an insert that appends the new values to the key's old ones
CacheInsertMerges(c, k, v, ttl, now, origin) ==
    LET old == IF HasKey(c, k) THEN EntryOf(c, k).value.values ELSE <<>>
        entry == [key |-> k,
                  value |-> [values |-> old \o v.values,
                             generated_at |-> v.generated_at],
                  expiration |-> now + ttl, origin |-> origin]
        inserted == Append(Without(c, k), entry)
    IN  IF Len(inserted) > Capacity THEN Tail(inserted) ELSE inserted

\* TtlCache::insert: the key's entry is replaced and becomes the most
\* recently inserted one; over capacity, the oldest entry is dropped.
\* `origin` records, for the properties only, the request that stored it,
\* the replies its fetch got, the entry it replaced and the entries of other
\* keys that the insert dropped.
CacheInsert(c, k, v, ttl, now, origin) ==
    LET entry == [key |-> k, value |-> v, expiration |-> now + ttl,
                  origin |-> origin]
        inserted == Append(Without(c, k), entry)
    IN  IF Len(inserted) > Capacity THEN Tail(inserted) ELSE inserted

\* ---------------------------------------------------------- cached_handler
\* u16::from(minutes) * 60 in 16 bits, then widened to u64 seconds.
Overflows(minutes) == minutes * SecsPerMinute >= U16Modulus
MaxDuration(minutes) == (minutes * SecsPerMinute) % U16Modulus

\* (mutant) a freshness check that excludes the window's last instant
IsFreshStrict(now, generated_at, max_duration) == now - generated_at < max_duration

\* Instant::now().duration_since(generated_at) <= max_duration
IsFresh(now, generated_at, max_duration) == now - generated_at <= max_duration

\* The inbound headers, with the default Authorization appended when the
\* request has none and a default is configured.
EffectiveHeaders(hs, default) ==
    IF ~ContainsKey(hs, "authorization") /\ default # None
    THEN AppendHeader(hs, "authorization", default[1])
    ELSE hs

\* ------------------------------------------------------------------ state
VARIABLES
    clock,                \* Instant::now(), in seconds
    default_auth_header,  \* AppState.default_auth_header, set at startup
    started,              \* number of requests dispatched so far (each
                          \* specification dispatches a bounded number)
    cache,                \* AppState.cache: the TtlCache's entries
    lock,                 \* holder of the cache mutex, or Unlocked
    pc,                   \* where each handler is
    req,                  \* the inbound request each handler serves
    headers,              \* its header map (after the default is appended)
    key,                  \* its CacheKey
    max_duration,         \* its freshness window, in seconds
    url,                  \* the url of its current hop
    replies,              \* the replies its fetch has got so far
    github_response,      \* the values its fetch returned
    calls,                \* the upstream requests it has sent
    resp                  \* its response

vars == <<clock, default_auth_header, started, cache, lock, pc, req, headers, key,
          max_duration, url, replies, github_response, calls, resp>>

Unlocked == "unlocked"
NoRequest ==
    [route |-> "none", minutes |-> 0, path |-> "", query |-> None, headers |-> <<>>]
NoKey == [authorization_header |-> None, path |-> ""]

Init ==
    /\ clock = 0
    /\ default_auth_header \in DefaultAuthHeaders
    /\ cache = <<>>
    /\ started = 0
    /\ lock = Unlocked
    /\ pc = [p \in Procs |-> "idle"]
    /\ req = [p \in Procs |-> NoRequest]
    /\ headers = [p \in Procs |-> <<>>]
    /\ key = [p \in Procs |-> NoKey]
    /\ max_duration = [p \in Procs |-> 0]
    /\ url = [p \in Procs |-> <<>>]
    /\ replies = [p \in Procs |-> <<>>]
    /\ github_response = [p \in Procs |-> <<>>]
    /\ calls = [p \in Procs |-> <<>>]
    /\ resp = [p \in Procs |-> NoResponse]

\* The uncached route: GET /{path}?{query}.  Path(path) extracts the path
\* of the request line; its query string is not part of it.
PlainRequest(p, path, query, hs) ==
    /\ pc[p] = "idle"
    /\ started' = started + 1
    /\ req' = [req EXCEPT ![p] =
                 [route |-> "plain", minutes |-> 0, path |-> path, query |-> query,
                  headers |-> hs]]
    /\ headers' = [headers EXCEPT ![p] = hs]
    /\ url' = [url EXCEPT ![p] = UpstreamUrl(path)]
    /\ pc' = [pc EXCEPT ![p] = "send"]
    /\ UNCHANGED <<clock, default_auth_header, cache, lock, key, max_duration,
                   replies, github_response, calls, resp>>

\* (mutant) a minutes segment parsed as a plain u16
MinutesAcceptedAsU16(minutes) == minutes >= 0 /\ minutes < U16Modulus

\* Path<(NonZeroU16, String)>: the minutes segment parses as a non-zero u16.
MinutesAccepted(minutes) == minutes >= 1 /\ minutes < U16Modulus

\* The cached route: GET /cached/{minutes}/{path}?{query}, up to the cache
\* lock.  Where the 16-bit product overflows, a build without overflow
\* checks goes on with the wrapped value.
CachedRequest(p, minutes, path, query, hs) ==
    /\ pc[p] = "idle"
    /\ MinutesAccepted(minutes)
    /\ started' = started + 1
    /\ req' = [req EXCEPT ![p] =
                 [route |-> "cached", minutes |-> minutes, path |-> path,
                  query |-> query, headers |-> hs]]
    /\ LET effective == EffectiveHeaders(hs, default_auth_header) IN
       /\ headers' = [headers EXCEPT ![p] = effective]
       /\ key' = [key EXCEPT ![p] = CacheKey(effective, path)]
    /\ max_duration' = [max_duration EXCEPT ![p] = MaxDuration(minutes)]
    /\ pc' = [pc EXCEPT ![p] = "lookup_lock"]
    /\ UNCHANGED <<clock, default_auth_header, cache, lock, url, replies,
                   github_response, calls, resp>>

\* The same, in a build with overflow checks, for a product that overflows:
\* the multiplication panics and the handler's task unwinds.
CachedRequestPanics(p, minutes, path, query, hs) ==
    /\ pc[p] = "idle"
    /\ MinutesAccepted(minutes)
    /\ started' = started + 1
    /\ Overflows(minutes)
    /\ req' = [req EXCEPT ![p] =
                 [route |-> "cached", minutes |-> minutes, path |-> path,
                  query |-> query, headers |-> hs]]
    /\ LET effective == EffectiveHeaders(hs, default_auth_header) IN
       /\ headers' = [headers EXCEPT ![p] = effective]
       /\ key' = [key EXCEPT ![p] = CacheKey(effective, path)]
    /\ pc' = [pc EXCEPT ![p] = "panicked"]
    /\ UNCHANGED <<clock, default_auth_header, cache, lock, max_duration, url,
                   replies, github_response, calls, resp>>

\* The cached route with a minutes segment the extractor rejects: the
\* rejection is the response, and the handler's body never runs.
CachedRequestRejected(p, minutes, path, query, hs) ==
    /\ pc[p] = "idle"
    /\ ~MinutesAccepted(minutes)
    /\ started' = started + 1
    /\ req' = [req EXCEPT ![p] =
                 [route |-> "cached", minutes |-> minutes, path |-> path,
                  query |-> query, headers |-> hs]]
    /\ resp' = [resp EXCEPT ![p] =
                  Response(StatusBadRequest, <<"Invalid URL: ", "PathRejection">>)]
    /\ pc' = [pc EXCEPT ![p] = "done"]
    /\ UNCHANGED <<clock, default_auth_header, cache, lock, headers, key,
                   max_duration, url, replies, github_response, calls>>

\* state.cache.lock() before the lookup.
LookupLock(p) ==
    /\ pc[p] = "lookup_lock"
    /\ lock = Unlocked
    /\ lock' = p
    /\ pc' = [pc EXCEPT ![p] = "lookup"]
    /\ UNCHANGED <<clock, default_auth_header, started, cache, req, headers, key,
                   max_duration, url, replies, github_response, calls, resp>>

\* (mutant) a miss that keeps the guard alive across the fetch
AfterMissKeepsGuard(p) ==
    /\ lock' = lock
    /\ url' = [url EXCEPT ![p] = UpstreamUrl(req[p].path)]
    /\ pc' = [pc EXCEPT ![p] = "send"]
    /\ UNCHANGED resp

\* Where the handler goes after a lookup that returned no fresh value, and
\* what becomes of the guard.
AfterMiss(p) ==
    /\ lock' = Unlocked
    /\ url' = [url EXCEPT ![p] = UpstreamUrl(req[p].path)]
    /\ pc' = [pc EXCEPT ![p] = "send"]
    /\ UNCHANGED resp

\* (mutant) a lookup whose hit starts the entry's lifetime anew
CacheLookupSlides(p) ==
    /\ pc[p] = "lookup"
    /\ lock = p
    /\ LET found == CacheGet(cache, key[p], clock) IN
       IF found # None /\ IsFresh(clock, found[1].generated_at, max_duration[p])
       THEN /\ resp' = [resp EXCEPT ![p] = SerializeForResponse(found[1].values)]
            /\ pc' = [pc EXCEPT ![p] = "done"]
            /\ lock' = Unlocked
            /\ cache' = CacheInsert(cache, key[p], CacheValue(found[1].values, clock),
                                    max_duration[p], clock,
                                    EntryOf(cache, key[p]).origin)
            /\ UNCHANGED url
       ELSE AfterMiss(p) /\ UNCHANGED cache
    /\ UNCHANGED <<clock, default_auth_header, started, req, headers, key,
                   max_duration, replies, github_response, calls>>

\* The lookup under the lock; the guard is dropped on both ways out.
CacheLookup(p) ==
    /\ pc[p] = "lookup"
    /\ lock = p
    /\ LET found == CacheGet(cache, key[p], clock) IN
       IF found # None /\ IsFresh(clock, found[1].generated_at, max_duration[p])
       THEN /\ resp' = [resp EXCEPT ![p] = SerializeForResponse(found[1].values)]
            /\ pc' = [pc EXCEPT ![p] = "done"]
            /\ lock' = Unlocked
            /\ UNCHANGED url
       ELSE AfterMiss(p)
    /\ UNCHANGED <<clock, default_auth_header, started, cache, req, headers, key,
                   max_duration, replies, github_response, calls>>

\* (mutant) a handler that stores whatever its fetch returned
StoresResultAlways(result) == TRUE

\* Whether the handler stores the result of its fetch.
StoresResult(result) ==
    result.ok /\ IsSuccess(SerializeForResponse(result.values).status)

\* fetch_from_github has returned `result` to the handler that awaited it.
FetchReturns(p, result) ==
    /\ resp' = [resp EXCEPT ![p] =
                  IF result.ok THEN SerializeForResponse(result.values)
                  ELSE result.error]
    /\ IF req[p].route = "cached" /\ StoresResult(result)
       THEN /\ github_response' = [github_response EXCEPT ![p] = result.values]
            /\ pc' = [pc EXCEPT ![p] = "store_lock"]
       ELSE /\ pc' = [pc EXCEPT ![p] = "done"]
            /\ UNCHANGED github_response

\* One hop builds its request and sends it; a url that is not absolute
\* makes the send fail without any call.
SendRequest(p) ==
    /\ pc[p] = "send"
    /\ IF UrlParses(url[p])
       THEN /\ calls' = [calls EXCEPT ![p] =
                           Append(@, [url |-> url[p],
                                      headers |-> TranslateHeaders(headers[p], url[p])])]
            /\ pc' = [pc EXCEPT ![p] = "await"]
            /\ UNCHANGED <<resp, github_response, replies>>
       ELSE /\ FetchReturns(p, FetchFromGithub(Append(replies[p], FailedCall)))
            /\ replies' = [replies EXCEPT ![p] = Append(@, FailedCall)]
            /\ UNCHANGED calls
    /\ UNCHANGED <<clock, default_auth_header, started, cache, lock, req, headers, key,
                   max_duration, url>>

\* The upstream answers the call in flight with r.
ReceiveReply(p, r) ==
    /\ pc[p] = "await"
    /\ HopResult(r).tag = "next" => Len(replies[p]) + 1 < MaxHops
    /\ replies' = [replies EXCEPT ![p] = Append(@, r)]
    /\ IF HopResult(r).tag = "next"
       THEN /\ url' = [url EXCEPT ![p] = HopResult(r).uri]
            /\ pc' = [pc EXCEPT ![p] = "send"]
            /\ UNCHANGED <<resp, github_response>>
       ELSE /\ FetchReturns(p, FetchFromGithub(Append(replies[p], r)))
            /\ UNCHANGED url
    /\ UNCHANGED <<clock, default_auth_header, started, cache, lock, req, headers, key,
                   max_duration, calls>>

\* state.cache.lock() before the insert.
StoreLock(p) ==
    /\ pc[p] = "store_lock"
    /\ lock = Unlocked
    /\ lock' = p
    /\ pc' = [pc EXCEPT ![p] = "store"]
    /\ UNCHANGED <<clock, default_auth_header, started, cache, req, headers, key,
                   max_duration, url, replies, github_response, calls, resp>>

\* cache.insert under the lock; the guard is dropped at the end of the block.
CacheStore(p) ==
    /\ pc[p] = "store"
    /\ lock = p
    /\ cache' = CacheInsert(cache, key[p],
                            CacheValue(github_response[p], clock),
                            max_duration[p], clock,
                            [req |-> req[p], body |-> resp[p].body,
                             replies |-> replies[p],
                             replaced |->
                               IF HasKey(cache, key[p])
                               THEN Some([value |-> EntryOf(cache, key[p]).value,
                                          req |-> EntryOf(cache, key[p]).origin.req])
                               ELSE None,
                             evicted |->
                               LET after == CacheInsert(cache, key[p],
                                                CacheValue(github_response[p], clock),
                                                max_duration[p], clock, <<>>)
                               IN  { [key |-> cache[i].key,
                                      generated_at |-> cache[i].value.generated_at,
                                      expiration |-> cache[i].expiration] :
                                     i \in { j \in 1..Len(cache) :
                                               /\ cache[j].key # key[p]
                                               /\ ~HasKey(after, cache[j].key) } }])
    /\ lock' = Unlocked
    /\ pc' = [pc EXCEPT ![p] = "done"]
    /\ UNCHANGED <<clock, default_auth_header, started, req, headers, key, max_duration,
                   url, replies, github_response, calls, resp>>

\* The response has been written (or the task has unwound): the handler is
\* free to serve the next request.
Finish(p) ==
    /\ pc[p] \in {"done", "panicked"}
    /\ pc' = [pc EXCEPT ![p] = "idle"]
    /\ req' = [req EXCEPT ![p] = NoRequest]
    /\ headers' = [headers EXCEPT ![p] = <<>>]
    /\ key' = [key EXCEPT ![p] = NoKey]
    /\ max_duration' = [max_duration EXCEPT ![p] = 0]
    /\ url' = [url EXCEPT ![p] = <<>>]
    /\ replies' = [replies EXCEPT ![p] = <<>>]
    /\ github_response' = [github_response EXCEPT ![p] = <<>>]
    /\ calls' = [calls EXCEPT ![p] = <<>>]
    /\ resp' = [resp EXCEPT ![p] = NoResponse]
    /\ UNCHANGED <<clock, default_auth_header, started, cache, lock>>

\* The inbound connection is dropped while the handler awaits the upstream:
\* its future is dropped where it is suspended, the call in flight is
\* abandoned, and nothing after the await runs.
Abandon(p) ==
    /\ pc[p] = "await"
    /\ pc' = [pc EXCEPT ![p] = "idle"]
    /\ req' = [req EXCEPT ![p] = NoRequest]
    /\ headers' = [headers EXCEPT ![p] = <<>>]
    /\ key' = [key EXCEPT ![p] = NoKey]
    /\ max_duration' = [max_duration EXCEPT ![p] = 0]
    /\ url' = [url EXCEPT ![p] = <<>>]
    /\ replies' = [replies EXCEPT ![p] = <<>>]
    /\ github_response' = [github_response EXCEPT ![p] = <<>>]
    /\ calls' = [calls EXCEPT ![p] = <<>>]
    /\ resp' = [resp EXCEPT ![p] = NoResponse]
    /\ UNCHANGED <<clock, default_auth_header, started, cache, lock>>

\* Time passes.
Tick ==
    /\ clock + SecsPerMinute <= MaxTicks * SecsPerMinute
    /\ clock' = clock + SecsPerMinute
    /\ UNCHANGED <<default_auth_header, started, cache, lock, pc, req, headers, key,
                   max_duration, url, replies, github_response, calls, resp>>

\* ---------------------------------------------------------- specifications
\* The cache: one handler serves one cached request after the other, over
\* every target and window; the upstream answers each with a single page or
\* an error.
SinglePageReplies ==
    { UpstreamReply("response", 404, TRUE, ErrorBody, None),
      Page(PageX, None), Page(PageYZ, None) }

Next ==
    \/ /\ started < MaxRequests
       /\ \E m \in Minutes, t \in Targets :
            CachedRequest("h1", m, t.path, None, t.headers)
    \/ /\ started < MaxRequests
       /\ \E m \in Minutes, t \in Targets :
            CachedRequestPanics("h1", m, t.path, None, t.headers)
    \/ LookupLock("h1")
    \/ CacheLookup("h1")
    \/ SendRequest("h1")
    \/ \E r \in SinglePageReplies : ReceiveReply("h1", r)
    \/ StoreLock("h1")
    \/ CacheStore("h1")
    \/ Finish("h1")
    \/ Tick

Spec == Init /\ [][Next]_vars

\* The fetch: one handler serves requests on both routes, against every
\* reply of the upstream on every hop.
FetchMinutes == {1}
FetchTargets == { Target("p", HNone) }
RouteMinutes == {0, 1}

NextFetch ==
    \/ /\ started < MaxRequests
       /\ \E t \in FetchTargets : PlainRequest("h1", t.path, None, t.headers)
    \/ /\ started < MaxRequests
       /\ \E m \in RouteMinutes, t \in FetchTargets, q \in Queries :
            CachedRequest("h1", m, t.path, q, t.headers)
    \/ /\ started < MaxRequests
       /\ \E m \in RouteMinutes, t \in FetchTargets, q \in Queries :
            CachedRequestRejected("h1", m, t.path, q, t.headers)
    \/ LookupLock("h1")
    \/ CacheLookup("h1")
    \/ SendRequest("h1")
    \/ \E r \in UpstreamReplies : ReceiveReply("h1", r)
    \/ StoreLock("h1")
    \/ CacheStore("h1")
    \/ Finish("h1")
    \/ Tick

SpecFetch == Init /\ [][NextFetch]_vars

\* Concurrency: two handlers serve cached requests at the same time, and
\* either client may go away while its handler awaits the upstream.
ConcurrentTargets == { Target("p", HA), Target("p", HB) }
ConcurrentReplies ==
    { UpstreamReply("response", 404, TRUE, ErrorBody, None),
      Page(PageX, None), Page(PageYZ, None), Page(PageX, HasNext) }

NextConcurrent ==
    \/ /\ started < MaxRequests
       /\ \E p \in Procs, m \in FetchMinutes, t \in ConcurrentTargets :
            CachedRequest(p, m, t.path, None, t.headers)
    \/ \E p \in Procs : LookupLock(p)
    \/ \E p \in Procs : CacheLookup(p)
    \/ \E p \in Procs : SendRequest(p)
    \/ \E p \in Procs, r \in ConcurrentReplies : ReceiveReply(p, r)
    \/ \E p \in Procs : StoreLock(p)
    \/ \E p \in Procs : CacheStore(p)
    \/ \E p \in Procs : Finish(p)
    \/ \E p \in Procs : Abandon(p)

SpecConcurrent == Init /\ [][NextConcurrent]_vars

\* Capacity: one handler serves more cached requests than the cache has
\* room for, over every target, while time passes.
CapacityReplies ==
    { UpstreamReply("response", 404, TRUE, ErrorBody, None), Page(PageX, None) }

NextCapacity ==
    \/ /\ started < MaxStores
       /\ \E m \in FetchMinutes, t \in Targets :
            CachedRequest("h1", m, t.path, None, t.headers)
    \/ LookupLock("h1")
    \/ CacheLookup("h1")
    \/ SendRequest("h1")
    \/ \E r \in CapacityReplies : ReceiveReply("h1", r)
    \/ StoreLock("h1")
    \/ CacheStore("h1")
    \/ Finish("h1")
    \/ Tick

SpecCapacity == Init /\ [][NextCapacity]_vars

\* The hops: one handler serves uncached requests against every reply of
\* the upstream on every hop.  The runtime polls a handler that can go on,
\* and every upstream call comes back.
NextHops ==
    \/ /\ started < MaxRequests
       /\ \E t \in FetchTargets : PlainRequest("h1", t.path, None, t.headers)
    \/ SendRequest("h1")
    \/ \E r \in UpstreamReplies : ReceiveReply("h1", r)
    \/ Finish("h1")

SpecHops ==
    /\ Init /\ [][NextHops]_vars
    /\ WF_vars(SendRequest("h1"))
    /\ WF_vars(\E r \in UpstreamReplies : ReceiveReply("h1", r))

\* ------------------------------------------------------------- properties
\* Steps and facts the properties speak of.
LooksUp(p) == pc[p] = "lookup" /\ pc'[p] # "lookup"
Hits(p) == pc[p] = "lookup" /\ pc'[p] = "done"
Stores(p) == pc[p] = "store" /\ pc'[p] = "done"
Age(entry) == clock - entry.value.generated_at
StoreWindow(entry) == entry.expiration - entry.value.generated_at
Last(seq) == seq[Len(seq)]

\* All values a header list holds for a name, in order.
RECURSIVE GetAll(_, _)
GetAll(hs, name) ==
    IF hs = <<>> THEN <<>>
    ELSE (IF Head(hs)[1] = name THEN <<Head(hs)[2]>> ELSE <<>>)
         \o GetAll(Tail(hs), name)

\* The Authorization a request effectively carries: all its values, after
\* the configured default is applied.
AuthOf(r) ==
    GetAll(IF GetAll(r.headers, "authorization") = <<>> /\ default_auth_header # None
           THEN r.headers \o << <<"authorization", default_auth_header[1]>> >>
           ELSE r.headers,
           "authorization")
SameIdentity(r1, r2) == r1.path = r2.path /\ AuthOf(r1) = AuthOf(r2)

\* C1 (as claimed): a cached request that finds the entry an identical
\* request stored less than `minutes` minutes ago is answered from the cache:
\* no upstream call, status 200 and the very body the first request got.
C1_WithinMinutesServedFromCache ==
    [][\A p \in Procs :
         ( /\ LooksUp(p)
           /\ HasKey(cache, key[p])
           /\ EntryOf(cache, key[p]).origin.req = req[p]
           /\ Age(EntryOf(cache, key[p])) < req[p].minutes * SecsPerMinute )
         => ( /\ pc'[p] = "done"
              /\ calls'[p] = <<>>
              /\ resp'[p] = Response(StatusOk, EntryOf(cache, key[p]).origin.body) )
      ]_vars

\* C2 (as claimed): whenever the key has an entry whose age is within the
\* current request's window, the lookup is a hit, whatever window the entry
\* was stored with (stated for windows whose seconds fit 16 bits, so that
\* it does not rest on the product of C8).
C2_HitDependsOnlyOnCurrentWindow ==
    [][\A p \in Procs :
         ( /\ LooksUp(p)
           /\ HasKey(cache, key[p])
           /\ ~Overflows(req[p].minutes)
           /\ ~Overflows(EntryOf(cache, key[p]).origin.req.minutes)
           /\ Age(EntryOf(cache, key[p])) <= max_duration[p] )
         => ( pc'[p] = "done" /\ calls'[p] = <<>> )
      ]_vars

\* C2 (amended): whenever the key has an entry whose age is within the
\* current request's window and within the window it was stored with, the
\* lookup is a hit: no upstream call, and the stored values are returned.
C2_HitWithinBothWindows ==
    [][\A p \in Procs :
         ( /\ LooksUp(p)
           /\ HasKey(cache, key[p])
           /\ Age(EntryOf(cache, key[p])) <= max_duration[p]
           /\ Age(EntryOf(cache, key[p])) <= StoreWindow(EntryOf(cache, key[p])) )
         => ( /\ pc'[p] = "done"
              /\ calls'[p] = <<>>
              /\ resp'[p] = Response(StatusOk,
                                     ToJsonString(EntryOf(cache, key[p]).value.values)) )
      ]_vars

\* C2 witness: a request was answered from an entry that an earlier request
\* stored with a shorter window, some time after it was stored.
C2_Witness ==
    \E p \in Procs :
        /\ pc[p] = "done" /\ req[p].route = "cached" /\ calls[p] = <<>>
        /\ resp[p].status = StatusOk
        /\ HasKey(cache, key[p])
        /\ StoreWindow(EntryOf(cache, key[p])) < max_duration[p]
        /\ Age(EntryOf(cache, key[p])) > 0
        /\ Age(EntryOf(cache, key[p])) <= StoreWindow(EntryOf(cache, key[p]))

\* C3: a handler whose fetch failed goes straight to its response and leaves
\* the cache as it was; the cache changes only when a handler whose fetch
\* succeeded inserts, and what it inserts are the values of that fetch.
C3_FailedFetchLeavesCacheUnchanged ==
    [][ /\ \A p \in Procs :
             ( /\ pc[p] \in {"send", "await"}
               /\ pc'[p] \notin {"send", "await"}
               /\ ~FetchFromGithub(replies'[p]).ok )
             => ( pc'[p] = "done" /\ cache' = cache
                  /\ resp'[p] = FetchFromGithub(replies'[p]).error )
        /\ cache' # cache =>
             \E p \in Procs :
                 /\ Stores(p)
                 /\ FetchFromGithub(replies[p]).ok
                 /\ HasKey(cache', key[p])
                 /\ EntryOf(cache', key[p]).value.values
                      = FetchFromGithub(replies[p]).values
      ]_vars

\* C3 witness: a cached request has failed on a followed page while the
\* key's entry, stored earlier, is still there.
C3_Witness ==
    \E p \in Procs :
        /\ pc[p] = "done" /\ req[p].route = "cached"
        /\ Len(replies[p]) = 2
        /\ ~FetchFromGithub(replies[p]).ok
        /\ HasKey(cache, key[p])
        /\ EntryOf(cache, key[p]).value.generated_at < clock

C5_DefaultCredentialOnEveryRoute ==
    \A p \in Procs :
        (req[p].route # "none" /\ GetAll(req[p].headers, "authorization") = <<>>)
        => \A i \in 1..Len(calls[p]) :
               GetAll(calls[p][i].headers, "authorization") = default_auth_header

\* A chain of successful pages: every reply is a readable 200 whose body is
\* an array and whose link header, if any, is well formed; every page but
\* the last names a next page, the last names none.
IsPage(r) ==
    /\ r.kind = "response" /\ r.status = StatusOk /\ r.readable
    /\ FromStr(r.body).ok
    /\ r.link # None => (r.link[1].visible_ascii /\ LinkParses(r.link[1]))
NamesNext(r) ==
    r.link # None /\ \E i \in 1..Len(r.link[1].entries) :
                         r.link[1].entries[i].rel = "next"
IsChain(rs) ==
    /\ rs # <<>>
    /\ \A i \in 1..Len(rs) : IsPage(rs[i]) /\ (NamesNext(rs[i]) <=> i < Len(rs))

\* The elements of the first n pages, page after page.
RECURSIVE Concatenation(_, _)
Concatenation(rs, n) ==
    IF n = 0 THEN <<>>
    ELSE Concatenation(rs, n - 1) \o FromStr(rs[n].body).values

\* C6: a fetch over a chain of N successful pages returns the elements of
\* page 1, then those of page 2, ... then those of page N, and nothing else.
C6_ResultIsConcatenationOfPages ==
    \A p \in Procs :
        (pc[p] \in {"store_lock", "store", "done"} /\ IsChain(replies[p]))
        => /\ FetchFromGithub(replies[p]).ok
           /\ FetchFromGithub(replies[p]).values
                = Concatenation(replies[p], Len(replies[p]))
           /\ resp[p] = Response(StatusOk,
                                 ToJsonString(Concatenation(replies[p], Len(replies[p]))))

\* C6 witness: a request over two pages with different elements is done.
C6_Witness ==
    \E p \in Procs :
        /\ pc[p] = "done" /\ IsChain(replies[p]) /\ Len(replies[p]) = 2
        /\ FromStr(replies[p][1].body).values # FromStr(replies[p][2].body).values
        /\ resp[p].body = <<"[", "x", ",", "y", ",", "z", "]">>

\* C7 (as claimed): when a call of a request came back with a non-success
\* status and a body, on whatever page, the response has that status and
\* exactly that body.
C7_UpstreamErrorIsRelayed ==
    \A p \in Procs :
        ( /\ pc[p] = "done" /\ replies[p] # <<>>
          /\ Last(replies[p]).kind = "response"
          /\ ~IsSuccess(Last(replies[p]).status)
          /\ Last(replies[p]).readable )
        => resp[p] = Response(Last(replies[p]).status, Last(replies[p]).body)

\* C8 (as claimed): the window of every cached request, and the lifetime of
\* every entry, is exactly minutes * 60 seconds, and computing it never
\* aborts the handler.
C8_WindowIsMinutesTimesSixty ==
    /\ \A p \in Procs :
           req[p].route = "cached"
           => /\ pc[p] # "panicked"
              /\ max_duration[p] = req[p].minutes * SecsPerMinute
    /\ \A i \in 1..Len(cache) :
           StoreWindow(cache[i]) = cache[i].origin.req.minutes * SecsPerMinute

\* C9: a request that finds the entry of an identical request older than
\* the window goes to the upstream; a request that stores has made one
\* fetch, one call per reply and a single one to its own url, and leaves the
\* key with a single entry holding exactly the values of that fetch, as of now.
C9_StaleEntryIsRefetchedAndReplaced ==
    [][\A p \in Procs :
         /\ ( /\ LooksUp(p)
              /\ HasKey(cache, key[p])
              /\ EntryOf(cache, key[p]).origin.req = req[p]
              /\ Age(EntryOf(cache, key[p])) > req[p].minutes * SecsPerMinute )
            => ( pc'[p] = "send" /\ calls'[p] = <<>> /\ replies'[p] = <<>> )
         /\ Stores(p) =>
              /\ Len(calls[p]) = Len(replies[p])
              /\ {i \in 1..Len(calls[p]) :
                    calls[p][i].url = UpstreamUrl(req[p].path)} = {1}
              /\ Cardinality({j \in 1..Len(cache') : cache'[j].key = key[p]}) = 1
              /\ EntryOf(cache', key[p]).value
                   = [values |-> FetchFromGithub(replies[p]).values,
                      generated_at |-> clock]
      ]_vars

\* C9 witness: a request is done after replacing the entry that an identical
\* request had stored more than the window before, with other values.
C9_Witness ==
    \E p \in Procs :
        /\ pc[p] = "done" /\ req[p].route = "cached" /\ Len(calls[p]) = 1
        /\ HasKey(cache, key[p])
        /\ LET entry == EntryOf(cache, key[p]) IN
           /\ entry.origin.req = req[p]
           /\ entry.origin.replaced # None
           /\ entry.origin.replaced[1].req = req[p]
           /\ entry.value.generated_at - entry.origin.replaced[1].value.generated_at
                > req[p].minutes * SecsPerMinute
           /\ entry.origin.replaced[1].value.values # entry.value.values
           /\ resp[p].body = ToJsonString(entry.value.values)

\* C10: no handler holds the cache mutex while it is about to send, or is
\* awaiting, an upstream call; the mutex is held only in the lookup and in
\* the insert.
C10_LockNotHeldAcrossFetch ==
    \A p \in Procs :
        /\ pc[p] \in {"send", "await"} => lock # p
        /\ lock = p => pc[p] \in {"lookup", "store"}

\* C10 witness: one handler holds the mutex for its lookup or its insert
\* while the upstream call of the other is in flight.
C10_Witness ==
    \E p \in Procs, q \in Procs :
        /\ p # q
        /\ pc[p] = "await"
        /\ lock = q /\ pc[q] \in {"lookup", "store"}

\* C11: nothing shares a fetch between handlers.  A handler that looks up a
\* key with no servable entry starts a fetch of its own, also while another
\* handler is fetching or about to store the same key; and every handler
\* that stores has made its own calls and leaves the key holding exactly the
\* values of its own fetch, whatever another handler stored there meanwhile.
C11_NoSingleFlightLastInsertWins ==
    [][\A p \in Procs :
         /\ ( /\ LooksUp(p)
              /\ \/ CacheGet(cache, key[p], clock) = None
                 \/ ~IsFresh(clock, EntryOf(cache, key[p]).value.generated_at,
                             max_duration[p]) )
            => ( pc'[p] = "send" /\ calls'[p] = <<>> /\ cache' = cache )
         /\ Stores(p) =>
              /\ calls[p] # <<>>
              /\ Len(calls[p]) = Len(replies[p])
              /\ EntryOf(cache', key[p]).value.values
                   = FetchFromGithub(replies[p]).values
              /\ EntryOf(cache', key[p]).origin.replies = replies[p]
      ]_vars

\* C11 witness: two handlers have fetched the same key at the same time with
\* different results; both are done, and the entry holds the values of the
\* one that inserted last, which replaced those of the other.
C11_Witness ==
    \E p \in Procs, q \in Procs :
        /\ p # q
        /\ pc[p] = "done" /\ pc[q] = "done"
        /\ key[p] = key[q] /\ req[p].route = "cached"
        /\ calls[p] # <<>> /\ calls[q] # <<>>
        /\ FetchFromGithub(replies[p]).ok /\ FetchFromGithub(replies[q]).ok
        /\ FetchFromGithub(replies[p]).values # FetchFromGithub(replies[q]).values
        /\ HasKey(cache, key[q])
        /\ EntryOf(cache, key[q]).value.values = FetchFromGithub(replies[q]).values
        /\ EntryOf(cache, key[q]).origin.replaced # None
        /\ EntryOf(cache, key[q]).origin.replaced[1].value.values
             = FetchFromGithub(replies[p]).values

\* A successful page whose link header cannot be parsed: its bytes are not
\* visible ASCII, or one of its entries has no uri.
HasBadLink(r) ==
    /\ r.kind = "response" /\ IsSuccess(r.status) /\ r.readable
    /\ FromStr(r.body).ok
    /\ r.link # None
    /\ \/ ~r.link[1].visible_ascii
       \/ \E i \in 1..Len(r.link[1].entries) : r.link[1].entries[i].uri = <<>>

\* C12: when a call comes back with a successful page whose link header
\* cannot be parsed, on whatever page, the handler goes straight to its
\* response: status 500, a body that is no array, no further call, nothing
\* stored.
C12_BadLinkAbortsWholeFetch ==
    [][\A p \in Procs :
         ( /\ pc[p] = "await"
           /\ Len(replies'[p]) = Len(replies[p]) + 1
           /\ HasBadLink(Last(replies'[p])) )
         => ( /\ pc'[p] = "done"
              /\ resp'[p].status = StatusInternalServerError
              /\ ~FromStr(resp'[p].body).ok
              /\ calls'[p] = calls[p]
              /\ github_response'[p] = <<>>
              /\ cache' = cache )
      ]_vars

\* C12 witness: a cached request whose first page brought elements and
\* whose second page has an unparsable link header is answered with 500.
C12_Witness ==
    \E p \in Procs :
        /\ pc[p] = "done" /\ req[p].route = "cached"
        /\ Len(replies[p]) = 2 /\ Len(calls[p]) = 2
        /\ FromStr(replies[p][1].body).values # <<>>
        /\ HasBadLink(replies[p][2])
        /\ resp[p].status = StatusInternalServerError
        /\ ~HasKey(cache, key[p])

\* C13: a cached request whose minutes segment is 0 is answered by the
\* rejection itself, for every path, query and headers: it never gets to the
\* lookup, makes no upstream call and leaves the cache as it is.
C13_ZeroMinutesRejected ==
    /\ \A p \in Procs :
           (req[p].route = "cached" /\ req[p].minutes = 0)
           => /\ pc[p] = "done"
              /\ resp[p].status = StatusBadRequest
              /\ calls[p] = <<>> /\ replies[p] = <<>>
              /\ key[p] = NoKey
              /\ lock # p
    /\ \A i \in 1..Len(cache) : cache[i].origin.req.minutes # 0

\* C13 witness: a request with minutes 0 has been rejected while the cache
\* holds a fresh entry for its path and Authorization, stored earlier.
C13_Witness ==
    \E p \in Procs :
        /\ req[p].route = "cached" /\ req[p].minutes = 0
        /\ pc[p] = "done" /\ resp[p].status = StatusBadRequest
        /\ \E i \in 1..Len(cache) :
             /\ SameIdentity(cache[i].origin.req, req[p])
             /\ ~IsExpired(cache[i], clock)

\* C14 (as claimed): the query string is part of the cache key, so a hit is
\* served only from an entry stored by a request with the same query string,
\* and the keys of two requests that differ in it differ.
C14_QueryStringIsPartOfKey ==
    [][\A p \in Procs :
         Hits(p) => EntryOf(cache, key[p]).origin.req.query = req[p].query
      ]_vars

\* C15: the cache never holds more entries than its capacity, nor two for
\* one key.  A store into a cache that has room, or that has the key,
\* removes no entry of another key; a store of a new key into a full cache
\* removes exactly one entry, one that no remaining entry was inserted
\* before, fresh or not, and leaves the others as they were.
C15_CapacityEvictsLeastRecentlyInserted ==
    [][ /\ Len(cache') <= Capacity
        /\ \A i, j \in 1..Len(cache') : cache'[i].key = cache'[j].key => i = j
        /\ \A p \in Procs :
             Stores(p) =>
               LET kept(i) == \E j \in 1..Len(cache') : cache'[j] = cache[i]
                   others == {i \in 1..Len(cache) : cache[i].key # key[p]}
               IN  /\ HasKey(cache', key[p])
                   /\ (HasKey(cache, key[p]) \/ Len(cache) < Capacity)
                        => \A i \in others : kept(i)
                   /\ (~HasKey(cache, key[p]) /\ Len(cache) = Capacity)
                        => \E i \in others :
                              /\ ~kept(i)
                              /\ \A j \in others \ {i} :
                                    /\ kept(j)
                                    /\ cache[j].value.generated_at
                                         >= cache[i].value.generated_at
      ]_vars

\* C15 witness: a store into the full cache has dropped an entry that was
\* still fresh, and has kept the entry of a key that was first stored before
\* the dropped one but stored again after it.
C15_Witness ==
    \E p \in Procs :
        /\ pc[p] = "done" /\ HasKey(cache, key[p]) /\ Len(cache) = Capacity
        /\ LET entry == EntryOf(cache, key[p]) IN
           /\ entry.origin.req = req[p]
           /\ \E e \in entry.origin.evicted :
                /\ entry.origin.evicted = {e}
                /\ e.expiration >= entry.value.generated_at
                /\ \E i \in 1..Len(cache) :
                     /\ cache[i].key # key[p]
                     /\ cache[i].value.generated_at > e.generated_at
                     /\ cache[i].origin.replaced # None
                     /\ cache[i].origin.replaced[1].value.generated_at < e.generated_at

\* C16: every entry of the cache holds the result of one whole fetch: the
\* replies of the fetch that stored it are a chain of successful pages up to
\* a page that names no next one, and its values are the elements of those
\* pages, page after page; a handler that is in the middle of a fetch, or
\* whose fetch failed, holds nothing that goes to the cache.
C16_EntriesAreWholeFetches ==
    /\ \A i \in 1..Len(cache) :
           /\ IsChain(cache[i].origin.replies)
           /\ cache[i].value.values
                = Concatenation(cache[i].origin.replies, Len(cache[i].origin.replies))
    /\ \A p \in Procs :
           /\ pc[p] \in {"send", "await"} => github_response[p] = <<>>
           /\ pc[p] \in {"store_lock", "store"} =>
                /\ IsChain(replies[p])
                /\ github_response[p] = Concatenation(replies[p], Len(replies[p]))

\* C16 witness: the key's entry holds the two pages of one fetch while
\* another handler's fetch of the same key has failed on its second page,
\* after a first page with other elements.
C16_Witness ==
    \E p \in Procs :
        /\ pc[p] = "done" /\ Len(replies[p]) = 2
        /\ resp[p].status = StatusInternalServerError
        /\ HasKey(cache, key[p])
        /\ LET entry == EntryOf(cache, key[p]) IN
           /\ Len(entry.origin.replies) = 2
           /\ entry.value.values # FromStr(replies[p][1].body).values
           /\ entry.value.values
                = FromStr(entry.origin.replies[1].body).values
                  \o FromStr(entry.origin.replies[2].body).values

\* The uri a page names as its next page.
NamedNext(r) ==
    r.link[1].entries[CHOOSE i \in 1..Len(r.link[1].entries) :
                         /\ r.link[1].entries[i].rel = "next"
                         /\ \A j \in 1..Len(r.link[1].entries) :
                               r.link[1].entries[j].rel = "next" => j <= i].uri

\* C17: the hops of a request go one after the other.  A call is sent only
\* when every earlier call of the request has been answered, the first to
\* the request's own url and each later one to the uri the page before it
\* named as next; at most one call is unanswered at any time; a page that
\* names a next page is always followed, however many pages came before it;
\* a fetch over a chain of N pages returns after exactly N calls; and, the
\* chain being finite and every call coming back, every fetch returns.
C17_HopsSequentialAndFinite ==
  /\ \A p \in Procs :
        (pc[p] \in {"send", "await"}) ~> (pc[p] \notin {"send", "await"})
  /\
    [][\A p \in Procs :
         /\ (calls'[p] # calls[p] /\ calls'[p] # <<>>) =>
              /\ pc[p] = "send" /\ pc'[p] = "await"
              /\ Len(calls'[p]) = Len(calls[p]) + 1
              /\ SubSeq(calls'[p], 1, Len(calls[p])) = calls[p]
              /\ Len(replies[p]) = Len(calls[p])
              /\ calls[p] = <<>> => Last(calls'[p]).url = UpstreamUrl(req[p].path)
              /\ calls[p] # <<>> =>
                   /\ IsPage(Last(replies[p])) /\ NamesNext(Last(replies[p]))
                   /\ Last(calls'[p]).url = NamedNext(Last(replies[p]))
         /\ IF pc'[p] = "await" THEN Len(calls'[p]) = Len(replies'[p]) + 1
            ELSE Len(calls'[p]) <= Len(replies'[p])
         /\ ( /\ Len(replies'[p]) = Len(replies[p]) + 1
              /\ Len(calls[p]) = Len(replies'[p])
              /\ IsPage(Last(replies'[p])) /\ NamesNext(Last(replies'[p])) )
            => ( pc'[p] = "send" /\ url'[p] = NamedNext(Last(replies'[p])) )
         /\ ( /\ pc[p] \in {"send", "await"}
              /\ pc'[p] \in {"store_lock", "done"}
              /\ IsChain(replies'[p]) )
            => ( /\ Len(calls'[p]) = Len(replies'[p])
                 /\ FetchFromGithub(replies'[p]).ok )
      ]_vars

\* C17 witness: the second call of a request is in flight, to the uri the
\* first page named, after the first page has been received and parsed.
C17_Witness ==
    \E p \in Procs :
        /\ pc[p] = "await"
        /\ Len(calls[p]) = 2 /\ Len(replies[p]) = 1
        /\ IsPage(replies[p][1]) /\ NamesNext(replies[p][1])
        /\ calls[p][2].url = NamedNext(replies[p][1])
        /\ calls[p][2].url # calls[p][1].url

\* The names a header list has.
Names(hs) == { hs[i][1] : i \in 1..Len(hs) }

\* C18: on every call of a request, first page or followed page, the host
\* header is the hostname of that call's own url, once per inbound host
\* header; there is no accept-encoding header; every other inbound header
\* is there with the values it came with, in their order; and nothing else
\* is sent, the Authorization of the cached route apart.
C18_HeadersTranslatedAtEveryHop ==
    \A p \in Procs : \A i \in 1..Len(calls[p]) :
        LET sent == calls[p][i].headers
            inbound == req[p].headers
        IN  /\ GetAll(sent, "host")
                 = [j \in 1..Len(GetAll(inbound, "host")) |-> calls[p][i].url[2]]
            /\ GetAll(sent, "accept-encoding") = <<>>
            /\ \A n \in Names(inbound) \ {"host", "accept-encoding"} :
                   GetAll(sent, n) = GetAll(inbound, n)
            /\ Names(sent) \subseteq Names(inbound) \cup {"authorization"}

\* C18 witness: a request that came with a host header, an accept-encoding
\* header and a header of two values has made two calls to different hosts.
C18_Witness ==
    \E p \in Procs :
        /\ Len(calls[p]) = 2
        /\ GetAll(req[p].headers, "host") = <<"proxy.local">>
        /\ GetAll(req[p].headers, "accept-encoding") # <<>>
        /\ GetAll(req[p].headers, "x-tag") = <<"1", "2">>
        /\ GetAll(calls[p][1].headers, "host") = <<"api.github.com">>
        /\ GetAll(calls[p][2].headers, "host") = <<"uploads.github.com">>
        /\ GetAll(calls[p][2].headers, "x-tag") = <<"1", "2">>

\* C19: a hit answers with the stored values and leaves the whole cache as
\* it is: the entry's values, its generated_at and its expiry, its place
\* among the entries, and every other entry.  So the expiry of every entry
\* stays the instant of its store plus the window of the request that
\* stored it, however often it is served.
C19_HitIsReadOnly ==
    /\ [][\A p \in Procs :
            Hits(p) =>
              /\ cache' = cache
              /\ resp'[p] = Response(StatusOk,
                                     ToJsonString(EntryOf(cache, key[p]).value.values))
         ]_vars
    /\ [](\A i \in 1..Len(cache) :
            cache[i].expiration
              = cache[i].value.generated_at + MaxDuration(cache[i].origin.req.minutes))

\* C19 witness: a request has been served, a minute after the store, from
\* an entry that another kind of request stored with a two-minute window,
\* and the entry still expires two minutes after its store.
C19_Witness ==
    \E p \in Procs :
        /\ pc[p] = "done" /\ req[p].route = "cached" /\ calls[p] = <<>>
        /\ resp[p].status = StatusOk
        /\ HasKey(cache, key[p])
        /\ LET entry == EntryOf(cache, key[p]) IN
           /\ entry.origin.req.minutes = 2
           /\ entry.origin.req # req[p]
           /\ Age(entry) = SecsPerMinute
           /\ entry.expiration = entry.value.generated_at + 2 * SecsPerMinute
           /\ resp[p].body = ToJsonString(entry.value.values)

\* C20: a store gives the entry an expiry of now plus the storing request's
\* own window, at every store; a lookup that finds the entry older than the
\* window it was stored with goes to the upstream, whatever window the
\* request asks for; and every hit is on an entry whose age is within the
\* window it was stored with and within the window of the request.
C20_ExpiryIsStoreTimeWindow ==
    [][\A p \in Procs :
         /\ Stores(p) =>
              /\ EntryOf(cache', key[p]).expiration = clock + max_duration[p]
              /\ EntryOf(cache', key[p]).value.generated_at = clock
         /\ ( /\ LooksUp(p)
              /\ HasKey(cache, key[p])
              /\ Age(EntryOf(cache, key[p])) > StoreWindow(EntryOf(cache, key[p])) )
            => ( pc'[p] = "send" /\ calls'[p] = <<>> )
         /\ Hits(p) =>
              /\ HasKey(cache, key[p])
              /\ Age(EntryOf(cache, key[p])) <= StoreWindow(EntryOf(cache, key[p]))
              /\ Age(EntryOf(cache, key[p])) <= max_duration[p]
      ]_vars

\* C20 witness: a request with a two-minute window has missed on an entry
\* that is two minutes old and was stored with a one-minute window.
C20_Witness ==
    \E p \in Procs :
        /\ pc[p] = "send" /\ req[p].route = "cached" /\ calls[p] = <<>>
        /\ ~Overflows(req[p].minutes)
        /\ HasKey(cache, key[p])
        /\ LET entry == EntryOf(cache, key[p]) IN
           /\ ~Overflows(entry.origin.req.minutes)
           /\ Age(entry) > StoreWindow(entry)
           /\ Age(entry) <= max_duration[p]

====
